---- MODULE Spec2Model ----
(***************************************************************************)
(* Verification model of the segmentation / extraction / consolidation     *)
(* pipeline of local_llm_xian_ni (chunker.py, extract.py, llm_client.py,   *)
(* merge.py).                                                              *)
(*                                                                         *)
(* Strings are sequences of one-character tokens.  Offsets are 0-based and *)
(* half-open as in Python; s[i:j] is SubSeq(s, i+1, j).                    *)
(***************************************************************************)
EXTENDS Integers, Sequences, FiniteSets, TLC

(***************************************************************************)
(* Bounds of the model                                                     *)
(***************************************************************************)
MaxText == 4

MaxL == 4

MaxChapCap == 1

MaxChunkCap == 2

(***************************************************************************)
(* Characters.  HeaderTok stands for one occurrence of the chapter marker  *)
(* matched by CHAPTER_LINE_RE; FullSpace stands for U+3000.                *)
(***************************************************************************)
HeaderTok == "H"

FullSpace == "~"

Newline == "\n"

WhiteSpace == {" ", Newline, FullSpace}

TextAlphabet == {"x", HeaderTok, Newline}

Min2(a, b) == IF a <= b THEN a ELSE b

Max2(a, b) == IF a >= b THEN a ELSE b

\* Python s[i:j] for 0 <= i, j
Slice(s, i, j) == SubSeq(s, i + 1, Min2(j, Len(s)))

\* Python str.strip(): drop leading and trailing whitespace
RECURSIVE LStrip(_)
LStrip(s) == IF s # <<>> /\ Head(s) \in WhiteSpace THEN LStrip(Tail(s)) ELSE s

RECURSIVE RStrip(_)
RStrip(s) ==
  IF s # <<>> /\ s[Len(s)] \in WhiteSpace THEN RStrip(SubSeq(s, 1, Len(s) - 1)) ELSE s

Strip(s) == RStrip(LStrip(s))

\* All sequences over S of length 0..n
SeqsUpTo(S, n) == UNION {[1..k -> S] : k \in 0..n}

(***************************************************************************)
(* chunker.py                                                              *)
(***************************************************************************)
\* 0-based offsets of the line starts of text
LineStarts(text) == {0} \cup {i \in 1..Len(text) : text[i] = Newline}

\* 0-based end (exclusive, the position of the newline or len) of the line starting at ls
LineEnd(text, ls) ==
  LET nl == {i \in (ls + 1)..Len(text) : text[i] = Newline}
  IN  IF nl = {} THEN Len(text) ELSE (CHOOSE i \in nl : \A j \in nl : i <= j) - 1

\* start offsets of the matches of CHAPTER_LINE_RE: lines that hold a chapter marker
HeaderStarts(text) ==
  {ls \in LineStarts(text) :
     ls <= Len(text) /\ \E p \in (ls + 1)..LineEnd(text, ls) : text[p] = HeaderTok}

\* the elements of a finite set of integers in increasing order
RECURSIVE SortedSeq(_)
SortedSeq(S) ==
  IF S = {} THEN <<>>
  ELSE LET m == CHOOSE x \in S : \A y \in S : x <= y
       IN  <<m>> \o SortedSeq(S \ {m})

WholeTextTitle == <<"W">>

_find_chapter_spans_ToEnd(text) ==
  LET matches == SortedSeq(HeaderStarts(text))
  IN  IF matches = <<>>
      THEN << [title |-> WholeTextTitle, start |-> 0, end |-> Len(text)] >>
      ELSE [i \in 1..Len(matches) |->
              [title |-> Strip(Slice(text, matches[i], LineEnd(text, matches[i]))),
               start |-> matches[i],
               end   |-> Len(text)]]

_find_chapter_spans_Empty(text) ==
  LET matches == SortedSeq(HeaderStarts(text))
  IN  [i \in 1..Len(matches) |->
         [title |-> Strip(Slice(text, matches[i], LineEnd(text, matches[i]))),
          start |-> matches[i],
          end   |-> IF i + 1 <= Len(matches) THEN matches[i + 1] ELSE Len(text)]]

_find_chapter_spans(text) ==
  LET matches == SortedSeq(HeaderStarts(text))
  IN  IF matches = <<>>
      THEN << [title |-> WholeTextTitle, start |-> 0, end |-> Len(text)] >>
      ELSE [i \in 1..Len(matches) |->
              [title |-> Strip(Slice(text, matches[i], LineEnd(text, matches[i]))),
               start |-> matches[i],
               end   |-> IF i + 1 <= Len(matches) THEN matches[i + 1] ELSE Len(text)]]

\* the while loop of _chunk_text, from window start i
RECURSIVE ChunkLoop(_, _, _, _)
ChunkLoop(body, i, max_chars_, step) ==
  IF i < Len(body)
  THEN LET j == Min2(Len(body), i + max_chars_)
       IN  << [start_char |-> i, end_char |-> j, text |-> Slice(body, i, j)] >>
           \o ChunkLoop(body, i + step, max_chars_, step)
  ELSE <<>>

_chunk_text(body0, max_chars_, overlap_) ==
  LET body == Strip(body0)
  IN  IF body = <<>> THEN <<>>
      ELSE ChunkLoop(body, 0, max_chars_, Max2(1, max_chars_ - overlap_))

\* f"{chunk_id:06d}": decimal digits, zero-padded on the left to width 6
IdWidth == 6

RECURSIVE Digits(_)
Digits(n) == IF n < 10 THEN <<n>> ELSE Digits(n \div 10) \o <<n % 10>>

RECURSIVE Zeros(_)
Zeros(k) == IF k <= 0 THEN <<>> ELSE <<0>> \o Zeros(k - 1)

FormatId(n) == Zeros(IdWidth - Len(Digits(n))) \o Digits(n)

\* Python truthiness of an int argument
Truthy(n) == n # 0

(***************************************************************************)
(* State.  Each program of the pipeline is a process of its own; the       *)
(* variables of a program that is not running keep their idle values.      *)
(***************************************************************************)
\* chunker.py main
VARIABLES text, max_chars, overlap, max_chapters, max_chunks,
          chapter_spans, ci, body_cur, chunks, k, out_lines, chunk_id, cpc, chunk_file

\* merge.py main
VARIABLES rows, all_entities, rel_rows, alias_map, ai, ri, rel_key_map, ev_log,
          relations, mpc, char_map, ei, characters, graph, mruns

\* chunker.py _chunk_text, run on its own
VARIABLES ct_body, ct_step, ct_i, ct_chunks, ct_pc

\* extract.py main and OpenAILLM
VARIABLES xrows, xlog, done, pos, attempt, xpc, runs, calls, completed, slept, outcome

chunkerVars == << text, max_chars, overlap, max_chapters, max_chunks,
                  chapter_spans, ci, body_cur, chunks, k, out_lines, chunk_id, cpc,
                  chunk_file >>

mergeVars == << rows, all_entities, rel_rows, alias_map, ai, ri, rel_key_map, ev_log,
                relations, mpc, char_map, ei, characters, graph, mruns >>

extractVars == << xrows, xlog, done, pos, attempt, xpc, runs, calls, completed,
                  slept, outcome >>

chunkTextVars == << ct_body, ct_step, ct_i, ct_chunks, ct_pc >>

vars == << chunkerVars, mergeVars, extractVars, chunkTextVars >>

ChunkerInit ==
  /\ text \in SeqsUpTo(TextAlphabet, MaxText)
  /\ max_chars \in 1..MaxL
  /\ overlap \in 0..(max_chars - 1)
  /\ max_chapters \in (-1)..MaxChapCap
  /\ max_chunks \in (-1)..MaxChunkCap
  /\ chapter_spans = <<>>
  /\ ci = 0
  /\ body_cur = <<>>
  /\ chunks = <<>>
  /\ k = 0
  /\ out_lines = <<>>
  /\ chunk_id = 0
  /\ cpc = "start"
  /\ chunk_file = <<>>

\* main lines 120-129: split by chapter, keep the first max_chapters spans
Segment ==
  /\ cpc = "start"
  /\ chapter_spans' =
       (LET spans == _find_chapter_spans(text)
        IN  IF Truthy(max_chapters) /\ max_chapters > 0
            THEN SubSeq(spans, 1, Min2(max_chapters, Len(spans)))
            ELSE spans)
  /\ cpc' = "chapters"
  /\ UNCHANGED << text, max_chars, overlap, max_chapters, max_chunks,
                  ci, body_cur, chunks, k, out_lines, chunk_id, chunk_file,
                  mergeVars, extractVars, chunkTextVars >>

\* main lines 151 and 154: if args.max_chunks and len(out_lines) >= args.max_chunks
CapReached_OffByOne(lines) == Truthy(max_chunks) /\ Len(lines) > max_chunks

CapReached(lines) == Truthy(max_chunks) /\ Len(lines) >= max_chunks

\* main lines 131-133: next chapter, its body and its windows
NextChapter ==
  /\ cpc = "chapters"
  /\ ci < Len(chapter_spans)
  /\ ci' = ci + 1
  /\ body_cur' = Strip(Slice(text, chapter_spans[ci + 1].start, chapter_spans[ci + 1].end))
  /\ chunks' = _chunk_text(body_cur', max_chars, overlap)
  /\ k' = 0
  /\ cpc' = "emit"
  /\ UNCHANGED << text, max_chars, overlap, max_chapters, max_chunks,
                  chapter_spans, out_lines, chunk_id, chunk_file,
                  mergeVars, extractVars, chunkTextVars >>

\* main line 149: chunk_id += 1 (one counter for the whole run)
NextChunkId_PerChapter(cid, part) == part + 1

NextChunkId(cid, part) == cid + 1

\* main lines 135-152: one iteration of the inner loop
EmitChunk ==
  /\ cpc = "emit"
  /\ k < Len(chunks)
  /\ k' = k + 1
  /\ out_lines' = Append(out_lines,
                    [chunk_id      |-> FormatId(chunk_id),
                     chapter_index |-> ci,
                     chapter_title |-> chapter_spans[ci].title,
                     part_index    |-> k + 1,
                     start_char    |-> chunks[k + 1].start_char,
                     end_char      |-> chunks[k + 1].end_char,
                     text          |-> chunks[k + 1].text])
  /\ chunk_id' = NextChunkId(chunk_id, k)
  /\ cpc' = IF CapReached(out_lines') THEN "endchapter" ELSE "emit"
  /\ UNCHANGED << text, max_chars, overlap, max_chapters, max_chunks,
                  chapter_spans, ci, body_cur, chunks, chunk_file,
                  mergeVars, extractVars, chunkTextVars >>

\* inner loop exhausted
InnerDone ==
  /\ cpc = "emit"
  /\ k = Len(chunks)
  /\ cpc' = "endchapter"
  /\ UNCHANGED << text, max_chars, overlap, max_chapters, max_chunks,
                  chapter_spans, ci, body_cur, chunks, k, out_lines, chunk_id, chunk_file,
                  mergeVars, extractVars, chunkTextVars >>

\* main lines 154-155: the outer break
EndChapter ==
  /\ cpc = "endchapter"
  /\ cpc' = IF CapReached(out_lines) THEN "write" ELSE "chapters"
  /\ UNCHANGED << text, max_chars, overlap, max_chapters, max_chunks,
                  chapter_spans, ci, body_cur, chunks, k, out_lines, chunk_id, chunk_file,
                  mergeVars, extractVars, chunkTextVars >>

\* outer loop exhausted
ChaptersDone ==
  /\ cpc = "chapters"
  /\ ci = Len(chapter_spans)
  /\ cpc' = "write"
  /\ UNCHANGED << text, max_chars, overlap, max_chapters, max_chunks,
                  chapter_spans, ci, body_cur, chunks, k, out_lines, chunk_id, chunk_file,
                  mergeVars, extractVars, chunkTextVars >>

\* main lines 157-159: write the chunk file
WriteChunks ==
  /\ cpc = "write"
  /\ chunk_file' = out_lines
  /\ cpc' = "done"
  /\ UNCHANGED << text, max_chars, overlap, max_chapters, max_chunks,
                  chapter_spans, ci, body_cur, chunks, k, out_lines, chunk_id,
                  mergeVars, extractVars, chunkTextVars >>

ChunkerNext ==
  \/ Segment
  \/ NextChapter
  \/ EmitChunk
  \/ InnerDone
  \/ EndChapter
  \/ ChaptersDone
  \/ WriteChunks


(***************************************************************************)
(* merge.py                                                                *)
(***************************************************************************)
\* s.replace(U+3000, " ")
ReplaceFullSpace(s) == [i \in 1..Len(s) |-> IF s[i] = FullSpace THEN " " ELSE s[i]]

_norm_name(s) == Strip(ReplaceFullSpace(Strip(s)))

\* AddAliases where a later mention overwrites an alias that is a key already
RECURSIVE AddAliases_Overwrite(_, _, _)
AddAliases_Overwrite(amap, items, name) ==
  IF items = <<>> THEN amap
  ELSE LET a == _norm_name(Head(items))
       IN  AddAliases_Overwrite(
             IF a = <<>> THEN amap
             ELSE [x \in DOMAIN amap \cup {a} |-> IF x = a THEN name ELSE amap[x]],
             Tail(items), name)

\* for a in aliases: a = _norm_name(str(a)); if a and a not in amap: amap[a] = name
RECURSIVE AddAliases(_, _, _)
AddAliases(amap, items, name) ==
  IF items = <<>> THEN amap
  ELSE LET a == _norm_name(Head(items))
       IN  AddAliases(IF a # <<>> /\ a \notin DOMAIN amap THEN amap @@ (a :> name) ELSE amap,
                      Tail(items), name)

\* one iteration of the loop of _merge_alias_map
AliasFold(amap, e) ==
  LET name == _norm_name(e.name)
  IN  IF name = <<>> THEN amap
      ELSE LET m1 == IF name \notin DOMAIN amap THEN amap @@ (name :> name) ELSE amap
           IN  IF e.aliases.kind = "list" THEN AddAliases(m1, e.aliases.items, name) ELSE m1

_canon(amap, name) ==
  LET n == _norm_name(name)
  IN  IF n \in DOMAIN amap THEN amap[n] ELSE n

\* confidence in tenths; rel.get("confidence", 0.5) and the except branch
DefaultConf == 5

\* float(conf) with the fallback of lines 150-154
ParseConf_ZeroDefault(c) == IF c.kind = "num" THEN c.val ELSE 0

ParseConf(c) == IF c.kind = "num" THEN c.val ELSE DefaultConf

\* Python max(a, b): b when b > a, else a
PyMax(a, b) == IF b > a THEN b ELSE a

\* line 176: item["confidence"] = max(item["confidence"], conf)
MergeConfidence_LastWins(old, new) == new

MergeConfidence(old, new) == PyMax(old, new)

\* line 161: key = (a, b, t, status)
RelKey_Undirected(amap, rel) ==
  LET a == _canon(amap, rel.from)
      b == _canon(amap, rel.to)
      lo == CHOOSE x \in {a, b} : TRUE
      hi == CHOOSE y \in {a, b} : y # lo \/ a = b
  IN  << lo, hi, _norm_name(rel.type), _norm_name(rel.status) >>

RelKey(amap, rel) ==
  << _canon(amap, rel.from), _canon(amap, rel.to),
     _norm_name(rel.type), _norm_name(rel.status) >>

ItemKey(item) == << item.from, item.to, item.type, item.status >>

\* rel_key_map.get(key): position of the item with this key in insertion order, 0 if none
KeyIndex(rkm, key) ==
  IF \E i \in 1..Len(rkm) : ItemKey(rkm[i]) = key
  THEN CHOOSE i \in 1..Len(rkm) : ItemKey(rkm[i]) = key
  ELSE 0

QuoteMax == 120

EvidenceCap == 12

\* lines 156-157: ev = rel.get("evidence") or {}; ev.get("quote", ""). The
\* evidence value of a mention is "object", "absent" (missing or falsy) or
\* "other" (a non-empty string, list or number, which has no get)
QuoteOf(rel) == IF rel.evidence = "object" THEN rel.quote ELSE <<>>

\* lines 178-185: the evidence object of a mention
EvidenceOf(meta, rel) ==
  [chunk_id |-> meta.chunk_id, quote |-> Slice(_norm_name(QuoteOf(rel)), 0, QuoteMax)]

\* RelFold with first_seen_chunk overwritten on every merge into a key
RelFold_LastSeen(rkm, amap, meta, rel) ==
  LET key   == RelKey(amap, rel)
      conf  == ParseConf(rel.confidence)
      quote == _norm_name(QuoteOf(rel))
      idx   == KeyIndex(rkm, key)
      base  == IF idx = 0
               THEN Append(rkm, [from |-> key[1], to |-> key[2], type |-> key[3],
                                 status |-> key[4], confidence |-> conf,
                                 notes |-> _norm_name(rel.notes),
                                 first_seen_chunk |-> meta.chunk_id,
                                 evidence |-> <<>>])
               ELSE [rkm EXCEPT ![idx].confidence = MergeConfidence(@, conf),
                                ![idx].first_seen_chunk = meta.chunk_id]
      at    == IF idx = 0 THEN Len(base) ELSE idx
  IN  IF quote # <<>>
      THEN [base EXCEPT ![at].evidence = Append(@, EvidenceOf(meta, rel))]
      ELSE base

\* lines 145-185: one iteration of the relation loop on the registry
RelFold(rkm, amap, meta, rel) ==
  LET key   == RelKey(amap, rel)
      conf  == ParseConf(rel.confidence)
      quote == _norm_name(QuoteOf(rel))
      idx   == KeyIndex(rkm, key)
      base  == IF idx = 0
               THEN Append(rkm, [from |-> key[1], to |-> key[2], type |-> key[3],
                                 status |-> key[4], confidence |-> conf,
                                 notes |-> _norm_name(rel.notes),
                                 first_seen_chunk |-> meta.chunk_id,
                                 evidence |-> <<>>])
               ELSE [rkm EXCEPT ![idx].confidence = MergeConfidence(@, conf)]
      at    == IF idx = 0 THEN Len(base) ELSE idx
  IN  IF quote # <<>>
      THEN [base EXCEPT ![at].evidence = Append(@, EvidenceOf(meta, rel))]
      ELSE base

\* code points, for sorted()
CharCode(c) ==
  CASE c = " " -> 32  [] c = "A" -> 65  [] c = "B" -> 66  [] c = "J" -> 74
    [] c = "S" -> 83  [] c = "T" -> 84  [] c = "U" -> 85  [] c = "m" -> 109
    [] c = "n" -> 110 [] c = "q" -> 113 [] c = FullSpace -> 12288
    [] OTHER -> 0

\* Python str <
RECURSIVE StrLess(_, _)
StrLess(s, t) ==
  IF t = <<>> THEN FALSE
  ELSE IF s = <<>> THEN TRUE
  ELSE IF CharCode(Head(s)) # CharCode(Head(t)) THEN CharCode(Head(s)) < CharCode(Head(t))
  ELSE StrLess(Tail(s), Tail(t))

\* line 191: the sort key (from, to, type), compared as a tuple
SortKeyLess(x, y) ==
  \/ StrLess(x.from, y.from)
  \/ x.from = y.from /\ StrLess(x.to, y.to)
  \/ x.from = y.from /\ x.to = y.to /\ StrLess(x.type, y.type)

\* sorted(): stable insertion of item x into the sorted sequence acc
RECURSIVE InsertSorted(_, _)
InsertSorted(acc, x) ==
  IF acc = <<>> THEN <<x>>
  ELSE IF SortKeyLess(x, Head(acc)) THEN <<x>> \o acc
  ELSE <<Head(acc)>> \o InsertSorted(Tail(acc), x)

RECURSIVE StableSort(_)
StableSort(items) ==
  IF items = <<>> THEN <<>>
  ELSE InsertSorted(StableSort(SubSeq(items, 1, Len(items) - 1)), items[Len(items)])

\* --- character registry, main lines 96-137 -------------------------------
AliasCap == 50

NotesCap == 20

RefCap == 200

\* str < on chunk ids, which are digit strings
RECURSIVE DigitsLess(_, _)
DigitsLess(s, t) ==
  IF t = <<>> THEN FALSE
  ELSE IF s = <<>> THEN TRUE
  ELSE IF Head(s) # Head(t) THEN Head(s) < Head(t)
  ELSE DigitsLess(Tail(s), Tail(t))

\* sorted(list(S)) for a set of strings
SortStrings(S) ==
  [p \in 1..Cardinality(S) |->
     CHOOSE x \in S : Cardinality({y \in S : StrLess(y, x)}) = p - 1]

\* sorted(list(S)) for a set of chunk ids
SortIds(S) ==
  [p \in 1..Cardinality(S) |->
     CHOOSE x \in S : Cardinality({y \in S : DigitsLess(y, x)}) = p - 1]

\* sorted(char_map.items(), key=lambda x: x[0]): the entries by name
SortByName(S) ==
  [p \in 1..Cardinality(S) |->
     CHOOSE x \in S : Cardinality({y \in S : StrLess(y.name, x.name)}) = p - 1]

\* "; ".join(items)
RECURSIVE Join(_)
Join(items) ==
  IF items = <<>> THEN <<>>
  ELSE IF Len(items) = 1 THEN items[1]
  ELSE items[1] \o <<";", " ">> \o Join(Tail(items))

\* the index of the registry entry named name, 0 if there is none
CharIndex(cm, name) ==
  IF \E j \in 1..Len(cm) : cm[j].name = name
  THEN CHOOSE j \in 1..Len(cm) : cm[j].name = name
  ELSE 0

\* lines 108-112: the aliases of the mention that are not the entry's name
AliasesToAdd(e, name) ==
  IF e.aliases.kind = "list"
  THEN {_norm_name(e.aliases.items[j]) : j \in 1..Len(e.aliases.items)} \ {<<>>, name}
  ELSE {}

\* lines 98-124 with the entry looked up under nm
CharFoldAt(cm, nm, e) ==
  IF nm = <<>> THEN cm
  ELSE LET idx  == CharIndex(cm, nm)
           base == IF idx = 0
                   THEN Append(cm, [name |-> nm, aliases |-> {}, notes |-> {},
                                    type |-> "person", evidence_refs |-> {}])
                   ELSE cm
           at   == IF idx = 0 THEN Len(base) ELSE idx
       IN  [base EXCEPT
              ![at].aliases = @ \cup AliasesToAdd(e, nm),
              ![at].notes = IF Strip(e.notes) # <<>> THEN @ \cup {Strip(e.notes)} ELSE @,
              ![at].evidence_refs = IF e.chunk_id # <<>> THEN @ \cup {e.chunk_id} ELSE @]

\* the entry looked up under the mention's own name instead of its canonical name
CharFold_ByOwnName(cm, amap, e) == CharFoldAt(cm, _norm_name(e.name), e)

\* lines 98-124: one entity mention folded into the registry
CharFold(cm, amap, e) == CharFoldAt(cm, _canon(amap, e.name), e)

\* lines 127-137: characters.yml, sorted by name, lists sorted and capped
CharactersOf(cm) ==
  LET sorted == SortByName({cm[j] : j \in 1..Len(cm)})
  IN  [j \in 1..Len(sorted) |->
         [name |-> sorted[j].name,
          aliases |-> Slice(SortStrings(sorted[j].aliases), 0, AliasCap),
          type |-> sorted[j].type,
          notes |-> Join(Slice(SortStrings(sorted[j].notes), 0, NotesCap)),
          evidence_refs |-> Slice(SortIds(sorted[j].evidence_refs), 0, RefCap)]]

\* a graph whose nodes are only the characters that some relation touches
GraphOf_ConnectedOnly(chars, rels) ==
  [nodes |-> LET keep == SelectSeq(chars, LAMBDA c :
                            \E j \in 1..Len(rels) : rels[j].from = c.name \/ rels[j].to = c.name)
             IN  [j \in 1..Len(keep) |->
                    [id |-> keep[j].name, aliases |-> keep[j].aliases, notes |-> keep[j].notes]],
   edges |-> [j \in 1..Len(rels) |->
                [source |-> rels[j].from, target |-> rels[j].to, type |-> rels[j].type,
                 status |-> rels[j].status, confidence |-> rels[j].confidence]]]

\* lines 196-209: graph.json
GraphOf(chars, rels) ==
  [nodes |-> [j \in 1..Len(chars) |->
                [id |-> chars[j].name, aliases |-> chars[j].aliases, notes |-> chars[j].notes]],
   edges |-> [j \in 1..Len(rels) |->
                [source |-> rels[j].from, target |-> rels[j].to, type |-> rels[j].type,
                 status |-> rels[j].status, confidence |-> rels[j].confidence]]]

\* SortedRelations keeping the last EvidenceCap items instead of the first
SortedRelations_KeepLast(rkm) ==
  LET sorted == StableSort(rkm)
  IN  [i \in 1..Len(sorted) |->
         [sorted[i] EXCEPT !.evidence =
            SubSeq(@, Max2(1, Len(@) - EvidenceCap + 1), Len(@))]]

\* lines 190-194: relations in (from, to, type) order, evidence capped
SortedRelations(rkm) ==
  LET sorted == StableSort(rkm)
  IN  [i \in 1..Len(sorted) |->
         [sorted[i] EXCEPT !.evidence = Slice(@, 0, EvidenceCap)]]

\* --- inputs of the merge -------------------------------------------------
MaxEnts == 3

MaxRels == 2

StrJ == <<"J">>

StrA == <<"A">>

StrB == <<"B">>

AliasValues ==
  {[kind |-> "list", items |-> it] : it \in {<<>>, <<StrA>>, <<StrB>>, <<StrJ>>}}
    \cup {[kind |-> "other", items |-> <<>>]}

EntityMentions ==
  [name : {StrJ, StrA, StrB, <<" ", "J", FullSpace>>, <<" ">>}, aliases : AliasValues,
   notes : {<<>>}]

ConfMissing == [kind |-> "missing", val |-> 0]

ConfText == [kind |-> "text", val |-> 0]

ConfNum(n) == [kind |-> "num", val |-> n]

\* mentions that differ in their key fields
KeyFamily ==
  {[from |-> ft[1], to |-> ft[2], type |-> ts[1], status |-> ts[2],
    confidence |-> ConfNum(DefaultConf), notes |-> <<>>, evidence |-> "object", quote |-> <<"q">>] :
     ft \in {<<StrJ, StrB>>, <<StrB, StrJ>>, <<StrA, StrB>>},
     ts \in {<< <<"T">>, <<"S">> >>, << <<" ", "T">>, <<"S">> >>,
             << <<"T", FullSpace, "U">>, <<"S">> >>, << <<"T", " ", "U">>, <<"S">> >>,
             << <<"T">>, <<"U">> >>}}

\* mentions of one key that differ in confidence and notes
ValueFamily ==
  {[from |-> <<"J", " ">>, to |-> StrB, type |-> <<"T">>, status |-> <<"S">>,
    confidence |-> c, notes |-> n, evidence |-> "object", quote |-> <<"q">>] :
     c \in {ConfMissing, ConfText, ConfNum(3), ConfNum(7)},
     n \in {<<>>, <<"n", " ">>}}

RelMentions == KeyFamily \cup ValueFamily

\* the entity mentions of the first record in runs that study relations
EntFamily == {<<>>, << [name |-> StrJ, aliases |-> [kind |-> "list", items |-> <<StrA>>],
                         notes |-> <<"n">>] >>}

MergeIdle ==
  /\ rows = <<>>
  /\ all_entities = <<>>
  /\ rel_rows = <<>>
  /\ alias_map = << >>
  /\ ai = 0
  /\ ri = 0
  /\ rel_key_map = <<>>
  /\ ev_log = <<>>
  /\ relations = <<>>
  /\ mpc = "idle"
  /\ char_map = <<>>
  /\ ei = 0
  /\ characters = <<>>
  /\ graph = [nodes |-> <<>>, edges |-> <<>>]
  /\ mruns = 0

MergeStart ==
  /\ all_entities = <<>>
  /\ rel_rows = <<>>
  /\ alias_map = << >>
  /\ ai = 0
  /\ ri = 0
  /\ rel_key_map = <<>>
  /\ ev_log = <<>>
  /\ relations = <<>>
  /\ mpc = "read"
  /\ char_map = <<>>
  /\ ei = 0
  /\ characters = <<>>
  /\ graph = [nodes |-> <<>>, edges |-> <<>>]
  /\ mruns = 1

\* an extraction record: has_extraction says whether the "extraction" key holds
\* an object, ents_is_list / rels_is_list whether its "entities" / "relations"
\* values are lists (a missing or empty value counts as the empty list)
Row(cid, hasex, el, rl, ents, rels) ==
  [chunk_id |-> cid, has_extraction |-> hasex, ents_is_list |-> el, rels_is_list |-> rl,
   ents |-> ents, rels |-> rels]

WellFormedRow(cid, ents, rels) == Row(cid, TRUE, TRUE, TRUE, ents, rels)

\* extraction records that hold entity mentions only
AliasInit ==
  /\ \E n \in 0..MaxEnts : \E f \in [1..n -> EntityMentions] :
        rows = [i \in 1..n |->
                  WellFormedRow(FormatId(i - 1), <<f[i]>>, <<>>)]
  /\ MergeStart

\* extraction records with at most one relation mention each
RelInit ==
  /\ \E n \in 0..MaxRels : \E E \in EntFamily :
     \E f \in [1..n -> {<<>>} \cup {<<m>> : m \in RelMentions}] :
        rows = [i \in 1..n |->
                  WellFormedRow(FormatId(i - 1), IF i = 1 THEN E ELSE <<>>, f[i])]
  /\ MergeStart

\* main lines 79-81: ex = r.get("extraction") or {}; ents = ex.get("entities") or []
RowEntities(r) == IF r.has_extraction /\ r.ents_is_list THEN r.ents ELSE <<>>

\* main lines 79-81 and 88: rels = ex.get("relations") or []; if isinstance(rels, list)
RowRelations(r) == IF r.has_extraction /\ r.rels_is_list THEN r.rels ELSE <<>>

\* --- inputs with malformed records and fields ----------------------------
MaxBadRows == 2

\* mentions of one key: every confidence shape with a well-formed evidence
\* object, one without evidence, one whose evidence is not an object
MalformedFamily ==
  {[from |-> StrA, to |-> StrB, type |-> <<"T">>, status |-> <<"S">>,
    confidence |-> ce[1], notes |-> <<>>, evidence |-> ce[2], quote |-> <<"q">>] :
     ce \in {<<ConfMissing, "object">>, <<ConfText, "object">>, <<ConfNum(3), "object">>,
             <<ConfNum(7), "object">>, <<ConfText, "absent">>, <<ConfNum(7), "other">>}}

\* (has_extraction, ents_is_list, rels_is_list) of the records
RowShapes == {<<TRUE, TRUE, TRUE>>, <<FALSE, TRUE, TRUE>>,
              <<TRUE, FALSE, TRUE>>, <<TRUE, TRUE, FALSE>>}

\* every record names J with alias A and holds one relation mention
MalformedInit ==
  /\ \E n \in 1..MaxBadRows :
        \E sh \in [1..n -> RowShapes] : \E f \in [1..n -> MalformedFamily] :
           rows = [i \in 1..n |->
                     Row(FormatId(i - 1), sh[i][1], sh[i][2], sh[i][3],
                         << [name |-> StrJ, aliases |-> [kind |-> "list", items |-> <<StrA>>],
                             notes |-> <<>>] >>,
                         << f[i] >>)]
  /\ MergeStart

\* --- inputs that reach the evidence cap ------------------------------------
MaxEvRows == 14

EvMention(st, quote) ==
  [from |-> StrJ, to |-> StrB, type |-> <<"T">>, status |-> st,
   confidence |-> ConfNum(DefaultConf), notes |-> <<>>, evidence |-> "object",
   quote |-> quote]

\* n records of one relation mention each, all of one key and with a quote,
\* except record p (no quote) and record o (another key)
EvidenceInit ==
  /\ \E n \in 0..MaxEvRows : \E p \in 0..n : \E o \in 0..n :
        rows = [i \in 1..n |->
                  WellFormedRow(FormatId(i - 1),
                                IF i = 1 THEN << [name |-> StrJ, aliases |->
                                                   [kind |-> "list", items |-> <<StrA>>],
                                                   notes |-> <<>>] >>
                                         ELSE <<>>,
                                << EvMention(IF i = o THEN <<"U">> ELSE <<"S">>,
                                             IF i = p THEN <<" ">> ELSE <<"q">>) >>)]
  /\ MergeStart

\* --- inputs that exercise the character registry -------------------------
MaxRegEnts == 3

\* entity mentions over three names that list each other as aliases, one
\* mention with a blank name and one with notes
RegistryFamily ==
  {[name |-> nm, aliases |-> [kind |-> "list", items |-> al], notes |-> <<>>] :
     nm \in {StrJ, StrA, StrB}, al \in {<<>>, <<StrA>>, <<StrB>>, <<StrJ>>}}
    \cup {[name |-> <<" ">>, aliases |-> [kind |-> "list", items |-> <<StrA>>], notes |-> <<>>],
          [name |-> StrJ, aliases |-> [kind |-> "other", items |-> <<>>], notes |-> <<"n", " ">>]}

\* one entity mention per record; the first record also holds a relation mention
RegistryInit ==
  /\ \E n \in 1..MaxRegEnts : \E f \in [1..n -> RegistryFamily] :
        rows = [i \in 1..n |->
                  WellFormedRow(FormatId(i - 1), <<f[i]>>,
                                IF i = 1 THEN << EvMention(<<"S">>, <<"q">>) >> ELSE <<>>)]
  /\ MergeStart

\* --- inputs of repeated merge runs over one output directory --------------
MaxMergeRuns == 2

MaxRerunRows == 1

\* the extraction files a run can be given: records of one entity mention and
\* one relation mention, with or without a quote
RerunInputs ==
  UNION {[1..n -> {WellFormedRow(FormatId(0),
                                 << [name |-> StrJ,
                                     aliases |-> [kind |-> "list", items |-> <<StrA>>],
                                     notes |-> <<>>] >>,
                                 << EvMention(st, qt) >>) :
                     st \in {<<"S">>, <<"T">>, <<"U">>}, qt \in {<<"q">>, <<" ">>}}] :
         n \in 0..MaxRerunRows}

RerunInit ==
  /\ rows \in RerunInputs
  /\ MergeStart

RECURSIVE CollectEntities(_)
CollectEntities(rs) ==
  IF rs = <<>> THEN <<>>
  ELSE [j \in 1..Len(RowEntities(Head(rs))) |->
          [name |-> RowEntities(Head(rs))[j].name,
           aliases |-> RowEntities(Head(rs))[j].aliases,
           notes |-> RowEntities(Head(rs))[j].notes,
           chunk_id |-> Head(rs).chunk_id]]
       \o CollectEntities(Tail(rs))

RECURSIVE CollectRelations(_)
CollectRelations(rs) ==
  IF rs = <<>> THEN <<>>
  ELSE [j \in 1..Len(RowRelations(Head(rs))) |->
          [meta |-> [chunk_id |-> Head(rs).chunk_id], rel |-> RowRelations(Head(rs))[j]]]
       \o CollectRelations(Tail(rs))

\* main lines 72-91: read the records, collect entity and relation mentions
Collect ==
  /\ mpc = "read"
  /\ all_entities' = CollectEntities(rows)
  /\ rel_rows' = CollectRelations(rows)
  /\ mpc' = "alias"
  /\ UNCHANGED << rows, alias_map, ai, ri, rel_key_map, ev_log, relations,
                  char_map, ei, characters, graph, mruns, chunkerVars, extractVars, chunkTextVars >>

\* _merge_alias_map lines 42-53: one entity mention
AliasStep ==
  /\ mpc = "alias"
  /\ ai < Len(all_entities)
  /\ alias_map' = AliasFold(alias_map, all_entities[ai + 1])
  /\ ai' = ai + 1
  /\ UNCHANGED << rows, all_entities, rel_rows, ri, rel_key_map, ev_log, relations, mpc,
                  char_map, ei, characters, graph, mruns, chunkerVars, extractVars, chunkTextVars >>

\* _merge_alias_map line 54: return amap
AliasDone ==
  /\ mpc = "alias"
  /\ ai = Len(all_entities)
  /\ mpc' = "chars"
  /\ UNCHANGED << rows, all_entities, rel_rows, alias_map, ai, ri, rel_key_map, ev_log,
                  relations, char_map, ei, characters, graph, mruns,
                  chunkerVars, extractVars, chunkTextVars >>

\* main lines 98-124: one entity mention folded into the character registry
CharStep ==
  /\ mpc = "chars"
  /\ ei < Len(all_entities)
  /\ char_map' = CharFold(char_map, alias_map, all_entities[ei + 1])
  /\ ei' = ei + 1
  /\ UNCHANGED << rows, all_entities, rel_rows, alias_map, ai, ri, rel_key_map, ev_log,
                  relations, mpc, characters, graph, mruns, chunkerVars, extractVars, chunkTextVars >>

\* out_path.open("w"): the evidence log as it is once opened for writing
OpenEvidenceLog(log) == <<>>

\* main lines 127-143: build the characters, open the evidence log for writing
CharsDone ==
  /\ mpc = "chars"
  /\ ei = Len(all_entities)
  /\ characters' = CharactersOf(char_map)
  /\ ev_log' = OpenEvidenceLog(ev_log)
  /\ mpc' = "rels"
  /\ UNCHANGED << rows, all_entities, rel_rows, alias_map, ai, ri, rel_key_map,
                  relations, char_map, ei, graph, mruns, chunkerVars, extractVars, chunkTextVars >>

\* main lines 145-186: one relation mention
RelStep ==
  /\ mpc = "rels"
  /\ ri < Len(rel_rows)
  /\ rel_rows[ri + 1].rel.evidence # "other"
  /\ LET meta == rel_rows[ri + 1].meta
         rel  == rel_rows[ri + 1].rel
     IN  /\ rel_key_map' = RelFold(rel_key_map, alias_map, meta, rel)
         /\ ev_log' = IF _norm_name(QuoteOf(rel)) # <<>>
                      THEN Append(ev_log, [key |-> RelKey(alias_map, rel),
                                           ev  |-> EvidenceOf(meta, rel)])
                      ELSE ev_log
  /\ ri' = ri + 1
  /\ UNCHANGED << rows, all_entities, rel_rows, alias_map, ai, relations, mpc,
                  char_map, ei, characters, graph, mruns, chunkerVars, extractVars, chunkTextVars >>

\* main lines 145-194 as a function of the collected mentions
RECURSIVE FoldRels(_, _, _)
FoldRels(rkm, amap, rr) ==
  IF rr = <<>> THEN rkm
  ELSE FoldRels(RelFold(rkm, amap, Head(rr).meta, Head(rr).rel), amap, Tail(rr))

MergeOutput(amap, rr) == SortedRelations(FoldRels(<<>>, amap, rr))

\* main line 157: ev.get raises AttributeError, which nothing catches: the
\* process ends before any output file is written
RelAbort ==
  /\ mpc = "rels"
  /\ ri < Len(rel_rows)
  /\ rel_rows[ri + 1].rel.evidence = "other"
  /\ mpc' = "crashed"
  /\ UNCHANGED << rows, all_entities, rel_rows, alias_map, ai, ri, rel_key_map, ev_log,
                  relations, char_map, ei, characters, graph, mruns,
                  chunkerVars, extractVars, chunkTextVars >>

\* main lines 188-214: close the evidence log, sort and cap the relations,
\* build the graph, write the outputs
Finalize ==
  /\ mpc = "rels"
  /\ ri = Len(rel_rows)
  /\ relations' = SortedRelations(rel_key_map)
  /\ graph' = GraphOf(characters, relations')
  /\ mpc' = "done"
  /\ UNCHANGED << rows, all_entities, rel_rows, alias_map, ai, ri, rel_key_map, ev_log,
                  char_map, ei, characters, mruns, chunkerVars, extractVars, chunkTextVars >>

AliasNext ==
  \/ Collect
  \/ AliasStep
  \/ AliasDone

MergeNext ==
  \/ Collect
  \/ AliasStep
  \/ AliasDone
  \/ CharStep
  \/ CharsDone
  \/ RelStep
  \/ Finalize

\* merge.py is started again on the same output directory: the process
\* starts afresh, the evidence log of the earlier run is on disk
Rerun ==
  /\ mpc = "done"
  /\ mruns < MaxMergeRuns
  /\ mruns' = mruns + 1
  /\ rows' \in RerunInputs
  /\ all_entities' = <<>>
  /\ rel_rows' = <<>>
  /\ alias_map' = << >>
  /\ ai' = 0
  /\ ri' = 0
  /\ rel_key_map' = <<>>
  /\ relations' = <<>>
  /\ char_map' = <<>>
  /\ ei' = 0
  /\ characters' = <<>>
  /\ graph' = [nodes |-> <<>>, edges |-> <<>>]
  /\ mpc' = "read"
  /\ UNCHANGED << ev_log, chunkerVars, extractVars, chunkTextVars >>

RerunNext ==
  \/ MergeNext
  \/ Rerun

MalformedNext ==
  \/ MergeNext
  \/ RelAbort

(***************************************************************************)
(* extract.py and llm_client.py                                            *)
(***************************************************************************)
MaxChunks == 2

MaxRuns == 2

\* LLMConfig.retries
Retries == 4

\* what the collaborator's text can look like to _safe_json
Responses == {"empty", "object", "array", "wrapped_object", "wrapped_bad", "no_braces"}

\* OpenAILLM._safe_json: the extraction stored for a response
_safe_json(resp) ==
  CASE resp = "empty"          -> "_error:empty_response"
    [] resp = "object"         -> "object"
    [] resp = "array"          -> "_raw"
    [] resp = "wrapped_object" -> "object"
    [] resp = "wrapped_bad"    -> "_error:invalid_json"
    [] OTHER                   -> "_error:no_json_object"

\* _existing_chunk_ids: the truthy chunk_ids of the lines of the log
_existing_chunk_ids_None(log) == {}

\* only the records whose extraction parsed as an object count as done
_existing_chunk_ids_ParsedOnly(log) ==
  {log[i].chunk_id : i \in {j \in 1..Len(log) :
                               log[j].chunk_id # <<>> /\ log[j].extraction = "object"}}

_existing_chunk_ids(log) ==
  {log[i].chunk_id : i \in {j \in 1..Len(log) : log[j].chunk_id # <<>>}}

\* out_path.open("a"): the log as it is once opened for appending
OpenLog_Truncate(log) == <<>>

OpenLog(log) == log

\* the chunk file as written by the chunker: ids 0..n-1 in order
ExtractInit ==
  /\ \E n \in 1..MaxChunks : xrows = [i \in 1..n |-> FormatId(i - 1)]
  /\ xlog = <<>>
  /\ done = {}
  /\ pos = 0
  /\ attempt = 0
  /\ xpc = "idle"
  /\ runs = 0
  /\ calls = [i \in 1..Len(xrows) |-> 0]
  /\ completed = 0
  /\ slept = <<>>
  /\ outcome = "none"

ExtractIdle ==
  /\ xrows = <<>>
  /\ xlog = <<>>
  /\ done = {}
  /\ pos = 0
  /\ attempt = 0
  /\ xpc = "off"
  /\ runs = 0
  /\ calls = <<>>
  /\ completed = 0
  /\ slept = <<>>
  /\ outcome = "none"

\* main lines 90-95: read the chunk file, the recorded ids, open the log
StartRun ==
  /\ xpc = "idle"
  /\ runs < MaxRuns
  /\ runs' = runs + 1
  /\ done' = _existing_chunk_ids(xlog)
  /\ xlog' = OpenLog(xlog)
  /\ pos' = 0
  /\ attempt' = 0
  /\ xpc' = "loop"
  /\ slept' = <<>>
  /\ outcome' = "none"
  /\ UNCHANGED << xrows, calls, completed, chunkerVars, mergeVars, chunkTextVars >>

\* main lines 97-99: the chunk is recorded already
SkipChunk ==
  /\ xpc = "loop"
  /\ pos < Len(xrows)
  /\ xrows[pos + 1] \in done
  /\ pos' = pos + 1
  /\ UNCHANGED << xrows, xlog, done, attempt, xpc, runs, calls, completed,
                  slept, outcome, chunkerVars, mergeVars, chunkTextVars >>

\* main lines 101-113: enter respond_json / respond_text
BeginCall ==
  /\ xpc = "loop"
  /\ pos < Len(xrows)
  /\ xrows[pos + 1] \notin done
  /\ attempt' = 0
  /\ xpc' = "call"
  /\ slept' = <<>>
  /\ outcome' = "none"
  /\ UNCHANGED << xrows, xlog, done, pos, runs, calls, completed,
                  chunkerVars, mergeVars, chunkTextVars >>

\* LLMConfig.backoff_base_s = 0.8, in tenths of a second
BackoffBaseTenths == 8

\* respond_text line 92: the wait after failed attempt i, in tenths of a second
Backoff_Linear(i) == BackoffBaseTenths * (i + 1)

Backoff(i) == BackoffBaseTenths * (2 ^ i)

\* main line 113 raised: lines 116-127 are not reached, nothing is written
LogOnRaise_ErrorRecord(log, cid) ==
  Append(log, [chunk_id |-> cid, extraction |-> "_error:call_failed"])

LogOnRaise(log, cid) == log

\* respond_text lines 73-92: attempt i raises; sleep; after the last attempt
\* line 93 raises RuntimeError, which main does not catch: the process ends
AttemptFails ==
  /\ xpc = "call"
  /\ attempt < Retries
  /\ calls' = [calls EXCEPT ![pos + 1] = @ + 1]
  /\ attempt' = attempt + 1
  /\ slept' = Append(slept, Backoff(attempt))
  /\ IF attempt + 1 = Retries
     THEN /\ outcome' = "raised"
          /\ xlog' = LogOnRaise(xlog, xrows[pos + 1])
          /\ xpc' = "idle"
     ELSE /\ outcome' = "none"
          /\ xlog' = xlog
          /\ xpc' = "call"
  /\ UNCHANGED << xrows, done, pos, runs, completed, chunkerVars, mergeVars, chunkTextVars >>

\* respond_text line 89 returns; respond_json parses; main lines 116-127 append
\* the record and flush
AttemptSucceeds ==
  /\ xpc = "call"
  /\ attempt < Retries
  /\ calls' = [calls EXCEPT ![pos + 1] = @ + 1]
  /\ \E resp \in Responses :
        xlog' = Append(xlog, [chunk_id |-> xrows[pos + 1], extraction |-> _safe_json(resp)])
  /\ pos' = pos + 1
  /\ xpc' = "loop"
  /\ outcome' = "returned"
  /\ UNCHANGED << xrows, done, attempt, runs, completed, slept, chunkerVars, mergeVars, chunkTextVars >>

\* the process is killed between chunks or during a collaborator call
Interrupt ==
  /\ xpc \in {"loop", "call"}
  /\ xpc' = "idle"
  /\ UNCHANGED << xrows, xlog, done, pos, attempt, runs, calls, completed,
                  slept, outcome, chunkerVars, mergeVars, chunkTextVars >>

\* main line 129: the loop is exhausted, the run completes
FinishRun ==
  /\ xpc = "loop"
  /\ pos = Len(xrows)
  /\ xpc' = "idle"
  /\ completed' = completed + 1
  /\ UNCHANGED << xrows, xlog, done, pos, attempt, runs, calls, slept, outcome,
                  chunkerVars, mergeVars, chunkTextVars >>

ExtractNext ==
  \/ StartRun
  \/ SkipChunk
  \/ BeginCall
  \/ AttemptFails
  \/ AttemptSucceeds
  \/ Interrupt
  \/ FinishRun

(***************************************************************************)
(* Specifications: one per program                                         *)
(***************************************************************************)
(***************************************************************************)
(* chunker.py _chunk_text, one loop iteration per step                     *)
(***************************************************************************)
MaxBody == 3

\* Python s[i:j] for any integers i, j: a negative index counts from the end
PyIndex(s, i) == IF i < 0 THEN Max2(0, Len(s) + i) ELSE Min2(i, Len(s))

PySlice(s, i, j) == SubSeq(s, PyIndex(s, i) + 1, PyIndex(s, j))

\* line 74 without the floor of 1
StepOf_NoFloor(max_chars_, overlap_) == max_chars_ - overlap_

\* line 74: step = max(1, max_chars - overlap)
StepOf(max_chars_, overlap_) == Max2(1, max_chars_ - overlap_)

ChunkTextIdle ==
  /\ ct_body = <<>>
  /\ ct_step = 0
  /\ ct_i = 0
  /\ ct_chunks = <<>>
  /\ ct_pc = "off"

\* a call _chunk_text(body, max_chars, overlap) with any small integers
ChunkTextInit ==
  /\ ct_body \in SeqsUpTo({"x", " "}, MaxBody)
  /\ max_chars \in (-1)..MaxL
  /\ overlap \in (-1)..(MaxL + 1)
  /\ ct_step = 0
  /\ ct_i = 0
  /\ ct_chunks = <<>>
  /\ ct_pc = "entry"
  /\ text = <<>>
  /\ max_chapters = 0
  /\ max_chunks = 0
  /\ chapter_spans = <<>>
  /\ ci = 0
  /\ body_cur = <<>>
  /\ chunks = <<>>
  /\ k = 0
  /\ out_lines = <<>>
  /\ chunk_id = 0
  /\ cpc = "off"
  /\ chunk_file = <<>>

\* lines 70-75: strip the body, return [] if it is empty, else set step and i
ChunkTextEnter ==
  /\ ct_pc = "entry"
  /\ ct_body' = Strip(ct_body)
  /\ IF Strip(ct_body) = <<>>
     THEN /\ ct_pc' = "returned"
          /\ UNCHANGED << ct_step, ct_i >>
     ELSE /\ ct_step' = StepOf(max_chars, overlap)
          /\ ct_i' = 0
          /\ ct_pc' = "loop"
  /\ UNCHANGED << ct_chunks, chunkerVars, mergeVars, extractVars >>

\* lines 76-79: one iteration of the while loop
ChunkTextIter ==
  /\ ct_pc = "loop"
  /\ ct_i < Len(ct_body)
  /\ LET j == Min2(Len(ct_body), ct_i + max_chars)
     IN  ct_chunks' = Append(ct_chunks, [start_char |-> ct_i, end_char |-> j,
                                         text |-> PySlice(ct_body, ct_i, j)])
  /\ ct_i' = ct_i + ct_step
  /\ UNCHANGED << ct_body, ct_step, ct_pc, chunkerVars, mergeVars, extractVars >>

\* lines 76 and 80: the loop condition fails, return chunks
ChunkTextReturn ==
  /\ ct_pc = "loop"
  /\ ~(ct_i < Len(ct_body))
  /\ ct_pc' = "returned"
  /\ UNCHANGED << ct_body, ct_step, ct_i, ct_chunks, chunkerVars, mergeVars, extractVars >>

ChunkTextNext ==
  \/ ChunkTextEnter
  \/ ChunkTextIter
  \/ ChunkTextReturn

ChunkerIdle ==
  /\ text = <<>>
  /\ max_chars = 1
  /\ overlap = 0
  /\ max_chapters = 0
  /\ max_chunks = 0
  /\ chapter_spans = <<>>
  /\ ci = 0
  /\ body_cur = <<>>
  /\ chunks = <<>>
  /\ k = 0
  /\ out_lines = <<>>
  /\ chunk_id = 0
  /\ cpc = "off"
  /\ chunk_file = <<>>

InitChunker == ChunkerInit /\ MergeIdle /\ ExtractIdle /\ ChunkTextIdle

InitAlias == AliasInit /\ ChunkerIdle /\ ExtractIdle /\ ChunkTextIdle

InitMerge == RelInit /\ ChunkerIdle /\ ExtractIdle /\ ChunkTextIdle

InitEvidence == EvidenceInit /\ ChunkerIdle /\ ExtractIdle /\ ChunkTextIdle

InitMalformed == MalformedInit /\ ChunkerIdle /\ ExtractIdle /\ ChunkTextIdle

InitRegistry == RegistryInit /\ ChunkerIdle /\ ExtractIdle /\ ChunkTextIdle

InitRerun == RerunInit /\ ChunkerIdle /\ ExtractIdle /\ ChunkTextIdle

InitExtract == ExtractInit /\ ChunkerIdle /\ MergeIdle /\ ChunkTextIdle

InitChunkText == ChunkTextInit /\ MergeIdle /\ ExtractIdle

\* the interpreter keeps executing the call: weak fairness of its steps
SpecChunkText == InitChunkText /\ [][ChunkTextNext]_vars /\ WF_vars(ChunkTextNext)

SpecChunker == InitChunker /\ [][ChunkerNext]_vars

SpecAlias == InitAlias /\ [][AliasNext]_vars

SpecEvidence == InitEvidence /\ [][MergeNext]_vars

SpecMalformed == InitMalformed /\ [][MalformedNext]_vars

SpecRegistry == InitRegistry /\ [][MergeNext]_vars

SpecRerun == InitRerun /\ [][RerunNext]_vars

SpecMerge == InitMerge /\ [][MergeNext]_vars

SpecExtract == InitExtract /\ [][ExtractNext]_vars

(***************************************************************************)
(* The run of main with no chapter cap and no chunk cap, as a fold over    *)
(* the chapters (main lines 128-149 with max_chapters = max_chunks = 0).   *)
(***************************************************************************)
ChapterBody(txt, span) == Strip(Slice(txt, span.start, span.end))

RECURSIVE UncappedFrom(_, _, _, _, _, _)
UncappedFrom(txt, spans, c, nextid, L, O) ==
  IF c > Len(spans) THEN <<>>
  ELSE LET cs == _chunk_text(ChapterBody(txt, spans[c]), L, O)
       IN  [p \in 1..Len(cs) |->
              [chunk_id      |-> FormatId(nextid + p - 1),
               chapter_index |-> c,
               chapter_title |-> spans[c].title,
               part_index    |-> p,
               start_char    |-> cs[p].start_char,
               end_char      |-> cs[p].end_char,
               text          |-> cs[p].text]]
           \o UncappedFrom(txt, spans, c + 1, nextid + Len(cs), L, O)

UncappedOutput(txt, L, O) == UncappedFrom(txt, _find_chapter_spans(txt), 1, 0, L, O)

(***************************************************************************)
(* Properties of the chunker                                               *)
(***************************************************************************)
IsPrefix(s, t) == Len(s) <= Len(t) /\ SubSeq(t, 1, Len(s)) = s

\* int(chunk_id): the number a digit string denotes
RECURSIVE IdValue(_)
IdValue(d) == IF d = <<>> THEN 0 ELSE 10 * IdValue(SubSeq(d, 1, Len(d) - 1)) + d[Len(d)]

\* the offsets covered by the windows cs
Covered(cs) == UNION {cs[p].start_char .. (cs[p].end_char - 1) : p \in 1..Len(cs)}

\* the windows of the current chapter have been computed from body_cur
WindowsComputed == cpc = "emit" /\ k = 0

\* C4: for a non-empty body of length n and 0 <= O < L the windows of
\* _chunk_text cover [0, n) exactly, and every pair of consecutive windows
\* other than the pair ending in the last window overlaps by exactly O.
C4_CoverageAndOverlap ==
  (WindowsComputed /\ body_cur # <<>>) =>
     /\ Covered(chunks) = 0..(Len(body_cur) - 1)
     /\ \A p \in 1..(Len(chunks) - 2) :
           chunks[p].end_char - chunks[p + 1].start_char = overlap

\* C5: a non-empty body shorter than L gives exactly one chunk, which covers
\* the whole body; a body that is empty after trimming gives no chunk.
C5_ShortBodyOneChunk ==
  WindowsComputed =>
     /\ (body_cur # <<>> /\ Len(body_cur) < max_chars) =>
           /\ Len(chunks) = 1
           /\ chunks[1].start_char = 0
           /\ chunks[1].end_char = Len(body_cur)
     /\ (body_cur = <<>>) => chunks = <<>>

\* (chapter_index, part_index) order
ChapPartLess(a, b) ==
  \/ a.chapter_index < b.chapter_index
  \/ a.chapter_index = b.chapter_index /\ a.part_index < b.part_index

\* C6: across a run the chunk_ids are pairwise distinct, start at 0, grow by
\* one per emitted chunk and are strictly increasing in (chapter_index,
\* part_index) order.
C6_ChunkIdsContiguous ==
  /\ \A p \in 1..Len(out_lines) : IdValue(out_lines[p].chunk_id) = p - 1
  /\ \A p, q \in 1..Len(out_lines) :
        /\ (p # q) => out_lines[p].chunk_id # out_lines[q].chunk_id
        /\ ChapPartLess(out_lines[p], out_lines[q])
             <=> IdValue(out_lines[p].chunk_id) < IdValue(out_lines[q].chunk_id)

C6_Witness ==
  /\ cpc = "done"
  /\ Len(chunk_file) >= 3
  /\ \E p, q \in 1..Len(chunk_file) :
        /\ chunk_file[p].chapter_index = 1 /\ chunk_file[p].part_index = 2
        /\ chunk_file[q].chapter_index = 2

\* C7: the records of a capped run are a prefix of the records of the
\* uncapped run on the same text, and a chunk cap N > 0 allows at most N
\* records.
C7_CappedIsPrefix ==
  /\ IsPrefix(out_lines, UncappedOutput(text, max_chars, overlap))
  /\ (cpc = "done") =>
        /\ chunk_file = out_lines
        /\ (max_chunks > 0) => Len(chunk_file) <= max_chunks

C7_Witness ==
  /\ cpc = "done"
  /\ max_chunks > 0
  /\ Len(chunk_file) = max_chunks
  /\ Len(UncappedOutput(text, max_chars, overlap)) > max_chunks
  /\ chunk_file[Len(chunk_file)].chapter_index = 2

\* with both caps off the run is the uncapped run
UncappedRunIsFold ==
  (cpc = "done" /\ max_chapters <= 0 /\ max_chunks = 0) =>
     chunk_file = UncappedOutput(text, max_chars, overlap)

(***************************************************************************)
(* Properties of the alias map and of the relation registry                *)
(***************************************************************************)
\* C1: in every alias map built by _merge_alias_map each key maps to itself
\* or to a key that maps to itself, so resolving twice is resolving once.
C1_SingleHop ==
  \A key \in DOMAIN alias_map :
     /\ alias_map[key] \in DOMAIN alias_map
     /\ alias_map[alias_map[key]] = alias_map[key]
     /\ _canon(alias_map, _canon(alias_map, key)) = _canon(alias_map, key)

\* the key of a mention with type and status trimmed only
TrimKey(m) ==
  << _canon(alias_map, m.from), _canon(alias_map, m.to), Strip(m.type), Strip(m.status) >>

\* the key of a mention with type and status trimmed and full-width spaces
\* turned into ASCII spaces
NormKey(m) ==
  << _canon(alias_map, m.from), _canon(alias_map, m.to),
     Strip(ReplaceFullSpace(Strip(m.type))), Strip(ReplaceFullSpace(Strip(m.status))) >>

\* the relation mentions folded so far
Folded == 1..ri

\* one registry entry per distinct key, under the key function keyOf
OnePerKey(keyOf(_)) ==
  /\ \A i \in Folded :
        Cardinality({j \in 1..Len(rel_key_map) :
                       \E h \in Folded : /\ keyOf(rel_rows[h].rel) = keyOf(rel_rows[i].rel)
                                         /\ ItemKey(rel_key_map[j]) = NormKey(rel_rows[h].rel)}) = 1
  /\ Len(rel_key_map) = Cardinality({keyOf(rel_rows[i].rel) : i \in Folded})
  /\ (mpc = "done") => Len(relations) = Cardinality({keyOf(rel_rows[i].rel) : i \in Folded})

Contributors(item) == {i \in Folded : NormKey(rel_rows[i].rel) = ItemKey(item)}

MaxOf(S) == CHOOSE m \in S : \A x \in S : x <= m

\* C9: the confidence of every Relation is the maximum of the parsed
\* confidences of the mentions that contributed to its key, in any order.
C9_ConfidenceIsMax ==
  /\ \A j \in 1..Len(rel_key_map) :
        /\ Contributors(rel_key_map[j]) # {}
        /\ rel_key_map[j].confidence =
             MaxOf({ParseConf(rel_rows[i].rel.confidence) : i \in Contributors(rel_key_map[j])})
  /\ (mpc = "done") =>
        \A j \in 1..Len(relations) :
           relations[j].confidence =
             MaxOf({ParseConf(rel_rows[i].rel.confidence) : i \in Contributors(relations[j])})

C9_Witness ==
  /\ mpc = "done"
  /\ Len(relations) = 1
  /\ Len(rel_rows) = 2
  /\ ParseConf(rel_rows[1].rel.confidence) > ParseConf(rel_rows[2].rel.confidence)
  /\ relations[1].confidence = ParseConf(rel_rows[1].rel.confidence)

\* the first non-empty notes value among the contributors, in input order
FirstNonEmptyNotes(item) ==
  LET ne == {i \in Contributors(item) : _norm_name(rel_rows[i].rel.notes) # <<>>}
  IN  IF ne = {} THEN <<>>
      ELSE _norm_name(rel_rows[CHOOSE i \in ne : \A j \in ne : i <= j].rel.notes)

\* C10: the notes of every Relation is the first non-empty notes value among
\* the mentions contributing to its key, in input order.
C10_FirstNonEmptyNotes ==
  \A j \in 1..Len(rel_key_map) : rel_key_map[j].notes = FirstNonEmptyNotes(rel_key_map[j])

(***************************************************************************)
(* Properties of the extraction step                                       *)
(***************************************************************************)
RecordsOf(log, id) == {i \in 1..Len(log) : log[i].chunk_id = id}

ExactlyOnceAll(log) == \A c \in 1..Len(xrows) : Cardinality(RecordsOf(log, xrows[c])) = 1

\* C2: once a run has completed, a further run over the same chunk file
\* makes no collaborator call and leaves the log as it is; the log holds
\* every chunk_id exactly once.
C2_SecondRunIsNoop ==
  /\ [](completed > 0 => ExactlyOnceAll(xlog))
  /\ [][completed > 0 => (calls' = calls /\ xlog' = xlog)]_vars

C2_Witness == completed = 2

\* C3: across interrupted runs and re-runs the collaborator is never called
\* for a chunk that has a record in the log, and when a run completes every
\* chunk_id of the chunk file has exactly one record.
C3_ResumeSafe ==
  [][ /\ \A c \in 1..Len(xrows) :
            calls'[c] > calls[c] => RecordsOf(xlog, xrows[c]) = {}
      /\ completed' > completed => ExactlyOnceAll(xlog') ]_vars

C3_Witness ==
  /\ runs = 2
  /\ completed = 1
  /\ done # {}
  /\ Cardinality(done) < Len(xrows)

\* the earliest mention, in input order, that contributed to item
FirstContributor(item) ==
  CHOOSE i \in Contributors(item) : \A j \in Contributors(item) : i <= j

\* C11: first_seen_chunk of a Relation is the chunk_id of its earliest
\* contributing mention in input order, set when the key is created and left
\* unchanged by every later merge into the key.
C11_FirstSeenSetOnce ==
  /\ [](/\ \A j \in 1..Len(rel_key_map) :
             rel_key_map[j].first_seen_chunk
               = rel_rows[FirstContributor(rel_key_map[j])].meta.chunk_id
        /\ (mpc = "done") =>
             \A j \in 1..Len(relations) :
                relations[j].first_seen_chunk
                  = rel_rows[FirstContributor(relations[j])].meta.chunk_id)
  /\ [][ /\ Len(rel_key_map') >= Len(rel_key_map)
         /\ \A j \in 1..Len(rel_key_map) :
               rel_key_map'[j].first_seen_chunk = rel_key_map[j].first_seen_chunk ]_vars

C11_Witness ==
  /\ mpc = "done"
  /\ Len(rel_rows) = 2
  /\ Len(relations) = 1
  /\ rel_rows[2].meta.chunk_id # rel_rows[1].meta.chunk_id
  /\ relations[1].first_seen_chunk = rel_rows[1].meta.chunk_id

\* the evidence items of the mentions in the index set I, in input order
RECURSIVE EvItems(_, _)
EvItems(I, from) ==
  IF from > Len(rel_rows) THEN <<>>
  ELSE (IF from \in I /\ _norm_name(QuoteOf(rel_rows[from].rel)) # <<>>
        THEN << [key |-> NormKey(rel_rows[from].rel),
                 ev  |-> EvidenceOf(rel_rows[from].meta, rel_rows[from].rel)] >>
        ELSE <<>>)
       \o EvItems(I, from + 1)

\* C12: the evidence list of every Relation holds the first 12 evidence items
\* of its key in input order and no more, while the evidence log holds every
\* evidence item of the run, those beyond the cap included.
C12_EvidenceCappedLogComplete ==
  (mpc = "done") =>
     /\ \A j \in 1..Len(relations) :
           LET all == EvItems(Contributors(relations[j]), 1)
           IN  /\ Len(relations[j].evidence) <= 12
               /\ Len(relations[j].evidence) = Min2(12, Len(all))
               /\ \A i \in 1..Len(relations[j].evidence) :
                     relations[j].evidence[i] = all[i].ev
     /\ ev_log = EvItems(1..Len(rel_rows), 1)

C12_Witness ==
  /\ mpc = "done"
  /\ \E j \in 1..Len(relations) :
        /\ Len(relations[j].evidence) = 12
        /\ Len(EvItems(Contributors(relations[j]), 1)) > 12
        /\ \E i \in 1..Len(ev_log) :
              /\ ev_log[i].key = ItemKey(relations[j])
              /\ \A h \in 1..12 : relations[j].evidence[h] # ev_log[i].ev
  /\ Len(relations) = 2

\* the run of the relation loop computes MergeOutput of its input
MergeRunIsFold ==
  (mpc = "done") => relations = MergeOutput(alias_map, rel_rows)

\* every mention followed by its copy
TwiceEach(rr) == [i \in 1..(2 * Len(rr)) |-> rr[(i + 1) \div 2]]

\* the whole input followed by its copy
TwiceAll(rr) == rr \o rr

\* C13: merging an input in which every relation mention appears twice gives
\* the same relations (keys, confidence, notes, first_seen_chunk and evidence
\* list) as merging the input in which each mention appears once.
C13_DuplicationIdempotent ==
  (mpc = "done") =>
     /\ MergeOutput(alias_map, TwiceEach(rel_rows)) = relations
     /\ MergeOutput(alias_map, TwiceAll(rel_rows)) = relations

\* C14: for one chunk, respond_text calls the collaborator at most Retries (4)
\* times, makes no call once a call has succeeded, waits backoff_base * 2^i
\* after the i-th failed attempt (i from 0), and raises exactly when all
\* Retries attempts failed.
C14_BoundedRetriesWithBackoff ==
  /\ [](/\ attempt <= Retries
        /\ Len(slept) = attempt
        /\ \A i \in 0..(Len(slept) - 1) : slept[i + 1] = BackoffBaseTenths * (2 ^ i)
        /\ (outcome = "raised") <=> (attempt = Retries)
        /\ (outcome # "none") => xpc # "call")
  /\ [][ (calls' # calls) =>
            /\ xpc = "call" /\ outcome = "none" /\ attempt < Retries
            /\ calls' = [calls EXCEPT ![pos + 1] = @ + 1]
            /\ outcome' = "returned" \/ attempt' = attempt + 1 ]_vars

C14_Witness ==
  /\ outcome = "raised"
  /\ slept = << 8, 16, 32, 64 >>

\* C15: when the collaborator fails for one chunk on every retry, the run
\* does not stop: it goes on to the remaining chunks.
C15_RunContinuesAfterFailure ==
  [][ (outcome = "none" /\ outcome' = "raised") => xpc' = "loop" ]_vars

HasRecord(log, cid) == \E i \in 1..Len(log) : log[i].chunk_id = cid

\* C16: when the call for chunk c fails permanently, the log is left as it
\* was (the records of other chunks unchanged, no record of c appended), and
\* a later run that reaches c finds it unrecorded and attempts it again.
C16_FailureLeavesLogIntact ==
  /\ [][ (outcome = "none" /\ outcome' = "raised") => xlog' = xlog ]_vars
  /\ []((outcome = "raised") => ~HasRecord(xlog, xrows[pos + 1]))
  /\ []((xpc = "loop" /\ pos < Len(xrows) /\ ~HasRecord(xlog, xrows[pos + 1]))
          => xrows[pos + 1] \notin done)

\* chunk 1 is recorded, chunk 2 failed permanently in the first run and is
\* attempted again, Retries times, by the second run
C16_Witness ==
  /\ outcome = "raised"
  /\ runs = 2
  /\ pos = 1
  /\ Len(xlog) = 1
  /\ xlog[1].chunk_id = xrows[1]
  /\ calls[2] = 2 * Retries

\* C17: the merge never aborts because a mention has a field of unexpected
\* type (a non-numeric confidence, an evidence value that is not an object).
C17_MergeNeverAborts == mpc # "crashed"

\* the confidence a mention is to be merged with, in tenths
ExpectedConf(c) == IF c.kind = "num" THEN c.val ELSE 5

\* C18: a relation mention whose confidence is missing or is not a number is
\* merged with confidence 0.5, a mention with a numeric confidence with that
\* value, and the confidence field never makes the merge raise.
C18_ConfidenceDefault ==
  /\ [][ (ri' = ri + 1) =>
            LET m == rel_rows[ri + 1].rel
            IN  \E j \in 1..Len(rel_key_map') :
                   /\ ItemKey(rel_key_map'[j]) = NormKey(m)
                   /\ rel_key_map'[j].confidence =
                        IF j > Len(rel_key_map) THEN ExpectedConf(m.confidence)
                        ELSE Max2(rel_key_map[j].confidence, ExpectedConf(m.confidence)) ]_vars
  /\ []((mpc = "crashed") => rel_rows[ri + 1].rel.evidence = "other")
  /\ []((mpc = "done" /\ Len(rel_rows) = 1 /\ rel_rows[1].rel.evidence # "other") =>
           /\ Len(relations) = 1
           /\ relations[1].confidence = ExpectedConf(rel_rows[1].rel.confidence))

C18_Witness ==
  /\ mpc = "done"
  /\ Len(rel_rows) = 2
  /\ rel_rows[1].rel.confidence.kind = "missing"
  /\ rel_rows[2].rel.confidence.kind = "text"
  /\ Len(relations) = 1
  /\ relations[1].confidence = 5

IsWellFormed(r) == r.has_extraction /\ r.ents_is_list /\ r.rels_is_list

\* C19: a record without the extraction key, or whose entities or relations
\* value is not a list, contributes no entity mention and no relation mention
\* and does not abort the merge; the other records are merged as if it were
\* absent.
C19_MalformedRecordContributesNothing ==
  (mpc \notin {"off", "read"}) =>
     /\ all_entities = CollectEntities(SelectSeq(rows, IsWellFormed))
     /\ rel_rows = CollectRelations(SelectSeq(rows, IsWellFormed))

\* the text holds no chapter marker
NoHeader(t) == \A i \in 1..Len(t) : t[i] # "H"

\* C20: when the text contains no chapter header the Segmenter returns exactly
\* one span, titled as the whole text, covering [0, len(text)); for no input
\* does it return an empty list.
C20_WholeTextSpan ==
  (cpc \notin {"off", "start"}) =>
     /\ chapter_spans # <<>>
     /\ NoHeader(text) =>
          /\ Len(chapter_spans) = 1
          /\ chapter_spans[1].title = WholeTextTitle
          /\ chapter_spans[1].start = 0
          /\ chapter_spans[1].end = Len(text)

C20_Witness ==
  /\ cpc = "done"
  /\ NoHeader(text)
  /\ Len(text) = 3
  /\ Len(chapter_spans) = 1
  /\ chapter_spans[1].title = WholeTextTitle
  /\ Len(out_lines) >= 1

\* the chapter cap of main is off
Uncapped == ~(Truthy(max_chapters) /\ max_chapters > 0)

\* the header line starts after offset p
HeadersAfter(p) == {h \in HeaderStarts(text) : h > p}

\* C21: for N >= 1 detected headers the Segmenter returns N spans in header
\* order, span i starting at header i's line start and ending where span i+1
\* starts, the last span ending at the end of the text; consecutive spans are
\* contiguous and no two spans overlap.
C21_SpansFollowHeaders ==
  (cpc \notin {"off", "start"} /\ HeaderStarts(text) # {}) =>
     LET n == Len(chapter_spans)
     IN  /\ Uncapped => /\ n = Cardinality(HeaderStarts(text))
                        /\ {chapter_spans[i].start : i \in 1..n} = HeaderStarts(text)
         /\ \A i \in 1..n :
               /\ chapter_spans[i].start \in HeaderStarts(text)
               /\ chapter_spans[i].start < chapter_spans[i].end
               /\ IF HeadersAfter(chapter_spans[i].start) = {}
                  THEN chapter_spans[i].end = Len(text)
                  ELSE /\ chapter_spans[i].end \in HeadersAfter(chapter_spans[i].start)
                       /\ \A h \in HeadersAfter(chapter_spans[i].start) :
                             chapter_spans[i].end <= h
         /\ \A i \in 1..(n - 1) : chapter_spans[i].end = chapter_spans[i + 1].start
         /\ \A i, j \in 1..n :
               i < j => chapter_spans[i].end <= chapter_spans[j].start

C21_Witness ==
  /\ cpc = "done"
  /\ Uncapped
  /\ Len(chapter_spans) = 2
  /\ chapter_spans[1].start = 0
  /\ chapter_spans[1].end = chapter_spans[2].start
  /\ chapter_spans[2].end = Len(text)

\* C22: the union of the spans returned by the Segmenter is the whole
\* analysed range [0, len(text)), also when text precedes the first header.
C22_SpansCoverText ==
  (cpc \notin {"off", "start"} /\ Uncapped) =>
     UNION {chapter_spans[i].start .. (chapter_spans[i].end - 1) :
              i \in 1..Len(chapter_spans)} = 0 .. (Len(text) - 1)

(***************************************************************************)
(* Properties of the character registry and of the graph                  *)
(***************************************************************************)
\* the entity mention folded by a step of the registry loop
FoldedEntity == all_entities[ei + 1]

\* C23: when the primary name of an entity mention was registered earlier as
\* an alias of a canonical name c, the mention is folded into c's Character
\* (its chunk_id joins c's evidence_refs) and no Character is created; for
\* {name: J, aliases: [A]} from chunk 0 and {name: A} from chunk 1 the registry
\* holds exactly one Character J with aliases {A} and both chunk_ids.
C23_AliasNameFoldsIntoCanonical ==
  /\ [][ (ei' = ei + 1) =>
            LET n == _norm_name(FoldedEntity.name)
            IN  (/\ n \in DOMAIN alias_map
                 /\ alias_map[n] # n
                 /\ alias_map[alias_map[n]] = alias_map[n]) =>
                   /\ Len(char_map') = Len(char_map)
                   /\ \E j \in 1..Len(char_map') :
                         /\ char_map'[j].name = alias_map[n]
                         /\ FoldedEntity.chunk_id \in char_map'[j].evidence_refs
                   /\ \A j \in 1..Len(char_map) : char_map'[j].name = char_map[j].name ]_vars
  /\ []((/\ mpc = "done"
         /\ Len(all_entities) = 2
         /\ all_entities[1].name = <<"J">>
         /\ all_entities[1].aliases = [kind |-> "list", items |-> << <<"A">> >>]
         /\ all_entities[2].name = <<"A">>
         /\ all_entities[2].aliases.items = <<>>) =>
           /\ Len(characters) = 1
           /\ characters[1].name = <<"J">>
           /\ characters[1].aliases = << <<"A">> >>
           /\ characters[1].evidence_refs = << FormatId(0), FormatId(1) >>)

C23_Witness ==
  /\ mpc = "done"
  /\ Len(all_entities) = 2
  /\ all_entities[1].name = <<"J">>
  /\ all_entities[1].aliases = [kind |-> "list", items |-> << <<"A">> >>]
  /\ all_entities[2].name = <<"A">>
  /\ all_entities[2].aliases.items = <<>>
  /\ Len(characters) = 1
  /\ Len(characters[1].evidence_refs) = 2

\* C24: after the merge every Character's name is a canonical name (the alias
\* map maps it to itself), there is exactly one Character for each canonical
\* name that some mention resolves to, and while mentions are folded in no
\* Character is removed from the registry.
C24_OneCharacterPerCanonicalName ==
  /\ []((mpc = "done") =>
          /\ \A j \in 1..Len(characters) :
                /\ characters[j].name \in DOMAIN alias_map
                /\ alias_map[characters[j].name] = characters[j].name
          /\ \A i \in 1..Len(all_entities) :
                _canon(alias_map, all_entities[i].name) # <<>> =>
                   Cardinality({j \in 1..Len(characters) :
                      characters[j].name = _canon(alias_map, all_entities[i].name)}) = 1)
  /\ [][ \A j \in 1..Len(char_map) :
            \E h \in 1..Len(char_map') : char_map'[h].name = char_map[j].name ]_vars

\* C25: once a name is a key of the alias map its value is never overwritten
\* by a later mention, so resolving a name that is a key gives the same
\* result however many mentions follow.
C25_FirstWriterWins ==
  [][ \A n \in DOMAIN alias_map :
         /\ n \in DOMAIN alias_map'
         /\ alias_map'[n] = alias_map[n]
         /\ _canon(alias_map', n) = _canon(alias_map, n) ]_vars

\* A is registered as an alias of J, then named as an alias of B and as a
\* primary name
C25_Witness ==
  /\ mpc = "done"
  /\ Len(all_entities) = 3
  /\ all_entities[1].name = <<"J">>
  /\ all_entities[1].aliases.items = << <<"A">> >>
  /\ all_entities[2].name = <<"B">>
  /\ all_entities[2].aliases.items = << <<"A">> >>
  /\ all_entities[3].name = <<"A">>
  /\ alias_map[<<"A">>] = <<"J">>

\* C26: the graph is a projection of the merge outputs: one node per
\* Character (id = name, with its aliases and notes) and one edge per Relation
\* (its from, to, type, status and confidence), in the same order, and
\* nothing else.
C26_GraphIsProjection ==
  (mpc = "done") =>
     /\ DOMAIN graph = {"nodes", "edges"}
     /\ Len(graph.nodes) = Len(characters)
     /\ \A j \in 1..Len(characters) :
           graph.nodes[j] = [id |-> characters[j].name,
                             aliases |-> characters[j].aliases,
                             notes |-> characters[j].notes]
     /\ Len(graph.edges) = Len(relations)
     /\ \A j \in 1..Len(relations) :
           graph.edges[j] = [source |-> relations[j].from,
                             target |-> relations[j].to,
                             type |-> relations[j].type,
                             status |-> relations[j].status,
                             confidence |-> relations[j].confidence]

C26_Witness ==
  /\ mpc = "done"
  /\ Len(graph.nodes) = 1
  /\ graph.nodes[1].aliases # <<>>
  /\ graph.nodes[1].notes # <<>>
  /\ Len(graph.edges) = 2
  /\ graph.edges[1].confidence # graph.edges[2].confidence

\* C29: in the graph of any merge every edge's source and target is the id
\* of a node of the same graph, also when an endpoint never appears as the
\* name or alias of an entity mention.
C29_EdgesJoinNodes ==
  (mpc = "done") =>
     \A j \in 1..Len(graph.edges) :
        /\ \E h \in 1..Len(graph.nodes) : graph.nodes[h].id = graph.edges[j].source
        /\ \E h \in 1..Len(graph.nodes) : graph.nodes[h].id = graph.edges[j].target

\* C27: the evidence log is append-only and never truncated: across any
\* sequence of merge runs an evidence item that is in the log stays in it,
\* unchanged, in every later state.
C27_EvidenceLogAppendOnly ==
  [][ /\ Len(ev_log') >= Len(ev_log)
      /\ \A j \in 1..Len(ev_log) : ev_log'[j] = ev_log[j] ]_vars

\* what _safe_json returns for a response that is not a JSON object
FailureObjects ==
  {"_error:empty_response", "_error:invalid_json", "_error:no_json_object", "_raw"}

\* C28: a response that cannot be parsed as a JSON object is not retried:
\* respond_json returns a failure object, the chunk's record is appended with
\* that object as its extraction, and no later step of this or of a later run
\* calls the collaborator for a chunk that has a record.
C28_UnparsableIsRecordedNotRetried ==
  /\ [][ (outcome' = "returned" /\ calls' # calls) =>
            /\ Len(xlog') = Len(xlog) + 1
            /\ SubSeq(xlog', 1, Len(xlog)) = xlog
            /\ xlog'[Len(xlog')].chunk_id = xrows[pos + 1]
            /\ xlog'[Len(xlog')].extraction \in FailureObjects \cup {"object"}
            /\ calls'[pos + 1] = calls[pos + 1] + 1
            /\ attempt' = attempt
            /\ pos' = pos + 1 ]_vars
  /\ [][ \A c \in 1..Len(xrows) :
            calls'[c] # calls[c] => ~HasRecord(xlog, xrows[c]) ]_vars
  /\ [](\A j \in 1..Len(xlog) : xlog[j].extraction \in FailureObjects =>
           \A c \in 1..Len(xrows) :
              (xrows[c] = xlog[j].chunk_id /\ xpc = "call") => pos + 1 # c)

\* the first chunk got an unparsable response at its first call; a second run
\* has passed it without calling again and is working on the second chunk
C28_Witness ==
  /\ runs = 2
  /\ Len(xrows) = 2
  /\ Len(xlog) = 1
  /\ xlog[1].chunk_id = xrows[1]
  /\ xlog[1].extraction = "_error:invalid_json"
  /\ calls[1] = 1
  /\ pos = 1
  /\ xpc = "call"

\* the stepwise loop returns what _chunk_text computes
ChunkTextIsLoop ==
  (ct_pc = "returned" /\ max_chars >= 1 /\ overlap >= 0) =>
     ct_chunks = _chunk_text(ct_body, max_chars, overlap)

\* C30: _chunk_text terminates for every body and every integer pair
\* (max_chars, overlap), overlap >= max_chars included, because the window
\* start advances by at least 1 on every iteration; it emits at most
\* len(body) chunks with strictly increasing start_char.
C30_ChunkTextTerminates ==
  /\ <>(ct_pc = "returned")
  /\ [][ (ct_chunks' # ct_chunks) =>
            /\ ct_i' >= ct_i + 1
            /\ Len(ct_chunks') = Len(ct_chunks) + 1 ]_vars
  /\ [](/\ Len(ct_chunks) <= Len(ct_body)
        /\ \A a, b \in 1..Len(ct_chunks) :
              a < b => ct_chunks[a].start_char < ct_chunks[b].start_char)

C30_Witness ==
  /\ ct_pc = "returned"
  /\ overlap >= max_chars
  /\ Len(ct_body) = 3
  /\ Len(ct_chunks) = 3

====
